---- MODULE Spec2Model ----
(***************************************************************************)
(* Headless widget controllers of bevy_core_widgets: CoreButton,           *)
(* CoreCheckbox and CoreBarrier.  Every observer of src/core_button.rs,    *)
(* src/core_checkbox.rs and src/core_barrier.rs is an operator that maps   *)
(* the context of one event dispatch (the propagate flag of the trigger,   *)
(* the components and resources the observer may write, the commands it    *)
(* queues) to the context it leaves.  One action dispatches one event to   *)
(* its target: it runs every observer registered for the event type and    *)
(* then applies the queued commands.                                       *)
(***************************************************************************)
EXTENDS Naturals, Sequences, FiniteSets

VARIABLES
    kind,           \* entity -> which widget component the entity carries
    callback,       \* entity -> on_click / on_change / on_close is Some(_)
    stores,         \* entity -> the application's consumer writes `checked`
    checked,        \* entity -> CoreCheckbox.checked
    disabled,       \* entity -> InteractionDisabled is attached
    pressed,        \* entity -> ButtonPressed.0
    focus,          \* InputFocus.0
    focus_visible,  \* InputFocusVisible.0
    last            \* the event dispatched last, with what its observers did

vars == <<kind, callback, stores, checked, disabled, pressed, focus, focus_visible, last>>

----------------------------------------------------------------------------
(* The world: entities and the components they carry.                      *)

\* Two entities: every observer reads and writes the components of its
\* target alone, and two are what it takes to tell the target from another
\* entity (the focus moving to the right one, a neighbour's flags left alone).
Entities == {"e1", "e2"}

\* Option<Entity>::None of InputFocus
NoEntity == "none"

\* "Button":   CoreButton, and with it the required ButtonPressed
\* "Checkbox": CoreCheckbox
\* "Barrier":  CoreBarrier
\* "Pressed":  a ButtonPressed component alone, no widget component
\* "Bare":     none of these components
Kinds == {"Button", "Checkbox", "Barrier", "Pressed", "Bare"}

HasCoreButton(e) == kind[e] = "Button"

HasButtonPressed(e) == kind[e] \in {"Button", "Pressed"}

HasCoreCheckbox(e) == kind[e] = "Checkbox"

HasCoreBarrier(e) == kind[e] = "Barrier"

----------------------------------------------------------------------------
(* Events.                                                                 *)

KeyCodes == {"Enter", "Space", "Escape"}

ButtonStates == {"Pressed", "Released"}

PointerTypes == {"Click", "Pressed", "Released", "DragEnd", "Cancel"}

\* FocusedInput<KeyboardInput>: target, input.key_code, input.state, input.repeat
KeyEvent(e, k, s, r) ==
    [type |-> "Key", target |-> e, key_code |-> k, state |-> s, repeat |-> r]

\* Pointer<Click | Pressed | Released | DragEnd | Cancel>: only the target is read
PointerEvent(t, e) ==
    [type |-> t, target |-> e, key_code |-> "None", state |-> "None", repeat |-> FALSE]

----------------------------------------------------------------------------
(* The context of one dispatch.                                            *)

\* What the observers of one event start from: the trigger propagates, no
\* command is queued, components and resources are as the state has them.
Context ==
    [propagate |-> TRUE, pressed |-> pressed, checked |-> checked, focus |-> focus,
     focus_visible |-> focus_visible, commands |-> <<>>]

\* commands.run_system(id) / commands.run_system_with(id, input): the system
\* registered on entity e, with its input (<<>> when it takes none)
run_system(cx, e, what, input) ==
    [cx EXCEPT !.commands =
        Append(@, [via |-> "callback", what |-> what, target |-> e, input |-> input])]

\* commands.trigger_targets(event, target)
trigger_targets(cx, what, input, e) ==
    [cx EXCEPT !.commands =
        Append(@, [via |-> "broadcast", what |-> what, target |-> e, input |-> input])]

\* trigger.propagate(false)
propagate_false(cx) == [cx EXCEPT !.propagate = FALSE]

----------------------------------------------------------------------------
(* Observers of core_button.rs.                                            *)


\* Variant: runs on_click and broadcasts ButtonClicked as well
button_on_key_event_BothChannels(ev, cx) ==
    IF HasCoreButton(ev.target) /\ ~disabled[ev.target]
       /\ ~ev.repeat /\ (ev.key_code = "Enter" \/ ev.key_code = "Space")
    THEN trigger_targets(
            IF callback[ev.target]
            THEN run_system(propagate_false(cx), ev.target, "ButtonClicked", <<>>)
            ELSE cx,
            "ButtonClicked", <<>>, ev.target)
    ELSE cx

button_on_key_event(ev, cx) ==
    IF HasCoreButton(ev.target)
    THEN IF ~disabled[ev.target]
         THEN IF ~ev.repeat /\ (ev.key_code = "Enter" \/ ev.key_code = "Space")
              THEN IF callback[ev.target]
                   THEN run_system(propagate_false(cx), ev.target, "ButtonClicked", <<>>)
                   ELSE trigger_targets(cx, "ButtonClicked", <<>>, ev.target)
              ELSE cx
         ELSE cx
    ELSE cx


\* Variant: trusts the backend's click, ButtonPressed is not consulted
button_on_pointer_click_AnyClick(ev, cx) ==
    IF HasCoreButton(ev.target) /\ HasButtonPressed(ev.target)
    THEN LET c1 == propagate_false(cx) IN
         IF ~disabled[ev.target]
         THEN IF callback[ev.target]
              THEN run_system(c1, ev.target, "ButtonClicked", <<>>)
              ELSE trigger_targets(c1, "ButtonClicked", <<>>, ev.target)
         ELSE c1
    ELSE cx


\* Variant: one pressed state for all buttons, any entity's ButtonPressed
\* lets the click through
button_on_pointer_click_AnyPressed(ev, cx) ==
    IF HasCoreButton(ev.target) /\ HasButtonPressed(ev.target)
    THEN LET c1 == propagate_false(cx) IN
         IF (\E e \in Entities : c1.pressed[e]) /\ ~disabled[ev.target]
         THEN IF callback[ev.target]
              THEN run_system(c1, ev.target, "ButtonClicked", <<>>)
              ELSE trigger_targets(c1, "ButtonClicked", <<>>, ev.target)
         ELSE c1
    ELSE cx

button_on_pointer_click(ev, cx) ==
    IF HasCoreButton(ev.target) /\ HasButtonPressed(ev.target)
    THEN LET c1 == propagate_false(cx) IN
         IF c1.pressed[ev.target] /\ ~disabled[ev.target]
         THEN IF callback[ev.target]
              THEN run_system(c1, ev.target, "ButtonClicked", <<>>)
              ELSE trigger_targets(c1, "ButtonClicked", <<>>, ev.target)
         ELSE c1
    ELSE cx


\* Variant: a disabled widget declines the press, propagation is not halted
button_on_pointer_down_DeclinesDisabled(ev, cx) ==
    IF HasButtonPressed(ev.target) /\ ~disabled[ev.target]
    THEN [propagate_false(cx) EXCEPT !.pressed[ev.target] = TRUE,
                                     !.focus = ev.target,
                                     !.focus_visible = FALSE]
    ELSE cx

\* Variant: the focus moves and InputFocusVisible is left as it was
button_on_pointer_down_KeepsFocusVisible(ev, cx) ==
    IF HasButtonPressed(ev.target)
    THEN LET c1 == propagate_false(cx) IN
         IF ~disabled[ev.target]
         THEN [c1 EXCEPT !.pressed[ev.target] = TRUE,
                         !.focus = ev.target]
         ELSE c1
    ELSE cx

button_on_pointer_down(ev, cx) ==
    IF HasButtonPressed(ev.target)
    THEN LET c1 == propagate_false(cx) IN
         IF ~disabled[ev.target]
         THEN [c1 EXCEPT !.pressed[ev.target] = TRUE,
                         !.focus = ev.target,
                         !.focus_visible = FALSE]
         ELSE c1
    ELSE cx


\* Variant: the release halts propagation and leaves ButtonPressed as it is
button_on_pointer_up_NoReset(ev, cx) ==
    IF HasButtonPressed(ev.target) THEN propagate_false(cx) ELSE cx

\* Variant: the release resets ButtonPressed on a disabled widget too
button_on_pointer_up_IgnoresDisabled(ev, cx) ==
    IF HasButtonPressed(ev.target)
    THEN [propagate_false(cx) EXCEPT !.pressed[ev.target] = FALSE]
    ELSE cx

button_on_pointer_up(ev, cx) ==
    IF HasButtonPressed(ev.target)
    THEN LET c1 == propagate_false(cx) IN
         IF ~disabled[ev.target]
         THEN [c1 EXCEPT !.pressed[ev.target] = FALSE]
         ELSE c1
    ELSE cx


\* Variant: drag-end halts propagation and leaves ButtonPressed as it is
button_on_pointer_drag_end_NoReset(ev, cx) ==
    IF HasButtonPressed(ev.target) THEN propagate_false(cx) ELSE cx

button_on_pointer_drag_end(ev, cx) ==
    IF HasButtonPressed(ev.target)
    THEN LET c1 == propagate_false(cx) IN
         IF ~disabled[ev.target]
         THEN [c1 EXCEPT !.pressed[ev.target] = FALSE]
         ELSE c1
    ELSE cx


\* Variant: the body of button_on_pointer_down pasted, pressed.0 = true kept
button_on_pointer_cancel_SetsPressed(ev, cx) ==
    IF HasButtonPressed(ev.target)
    THEN LET c1 == propagate_false(cx) IN
         IF ~disabled[ev.target]
         THEN [c1 EXCEPT !.pressed[ev.target] = TRUE]
         ELSE c1
    ELSE cx

button_on_pointer_cancel(ev, cx) ==
    IF HasButtonPressed(ev.target)
    THEN LET c1 == propagate_false(cx) IN
         IF ~disabled[ev.target]
         THEN [c1 EXCEPT !.pressed[ev.target] = FALSE]
         ELSE c1
    ELSE cx

----------------------------------------------------------------------------
(* Observers of core_checkbox.rs.                                          *)


\* Variant: event.repeat is not tested, a held key keeps dispatching
checkbox_on_key_input_Repeats(ev, cx) ==
    IF HasCoreCheckbox(ev.target)
    THEN IF /\ ~disabled[ev.target]
            /\ ev.state = "Pressed"
            /\ (ev.key_code = "Enter" \/ ev.key_code = "Space")
         THEN LET is_checked == checked[ev.target]
                  c1 == propagate_false(cx) IN
              IF callback[ev.target]
              THEN run_system(c1, ev.target, "ValueChange", <<~is_checked>>)
              ELSE trigger_targets(c1, "ValueChange", <<~is_checked>>, ev.target)
         ELSE cx
    ELSE cx


\* Variant: the controller flips CoreCheckbox.checked itself before it
\* dispatches the new value
checkbox_on_key_input_Toggles(ev, cx) ==
    IF HasCoreCheckbox(ev.target)
    THEN IF /\ ~disabled[ev.target]
            /\ ev.state = "Pressed"
            /\ ~ev.repeat
            /\ (ev.key_code = "Enter" \/ ev.key_code = "Space")
         THEN LET is_checked == checked[ev.target]
                  c1 == propagate_false([cx EXCEPT !.checked[ev.target] = ~is_checked]) IN
              IF callback[ev.target]
              THEN run_system(c1, ev.target, "ValueChange", <<~is_checked>>)
              ELSE trigger_targets(c1, "ValueChange", <<~is_checked>>, ev.target)
         ELSE cx
    ELSE cx

checkbox_on_key_input(ev, cx) ==
    IF HasCoreCheckbox(ev.target)
    THEN IF /\ ~disabled[ev.target]
            /\ ev.state = "Pressed"
            /\ ~ev.repeat
            /\ (ev.key_code = "Enter" \/ ev.key_code = "Space")
         THEN LET is_checked == checked[ev.target]
                  c1 == propagate_false(cx) IN
              IF callback[ev.target]
              THEN run_system(c1, ev.target, "ValueChange", <<~is_checked>>)
              ELSE trigger_targets(c1, "ValueChange", <<~is_checked>>, ev.target)
         ELSE cx
    ELSE cx


\* Variant: the focus moves only when the checkbox is not disabled
checkbox_on_pointer_click_FocusIfEnabled(ev, cx) ==
    IF HasCoreCheckbox(ev.target)
    THEN LET c1 == propagate_false(cx) IN
         IF ~disabled[ev.target]
         THEN LET is_checked == checked[ev.target]
                  c2 == [c1 EXCEPT !.focus = ev.target, !.focus_visible = FALSE] IN
              IF callback[ev.target]
              THEN run_system(c2, ev.target, "ValueChange", <<~is_checked>>)
              ELSE trigger_targets(c2, "ValueChange", <<~is_checked>>, ev.target)
         ELSE c1
    ELSE cx


\* Variant: the value dispatched is the stored one, the negation is lost
checkbox_on_pointer_click_SameValue(ev, cx) ==
    IF HasCoreCheckbox(ev.target)
    THEN LET checkbox_id == ev.target
             c1 == propagate_false([cx EXCEPT !.focus = checkbox_id,
                                              !.focus_visible = FALSE]) IN
         IF ~disabled[ev.target]
         THEN LET is_checked == checked[ev.target] IN
              IF callback[ev.target]
              THEN run_system(c1, ev.target, "ValueChange", <<is_checked>>)
              ELSE trigger_targets(c1, "ValueChange", <<is_checked>>, ev.target)
         ELSE c1
    ELSE cx

checkbox_on_pointer_click(ev, cx) ==
    IF HasCoreCheckbox(ev.target)
    THEN LET checkbox_id == ev.target
             c1 == propagate_false([cx EXCEPT !.focus = checkbox_id,
                                              !.focus_visible = FALSE]) IN
         IF ~disabled[ev.target]
         THEN LET is_checked == checked[ev.target] IN
              IF callback[ev.target]
              THEN run_system(c1, ev.target, "ValueChange", <<~is_checked>>)
              ELSE trigger_targets(c1, "ValueChange", <<~is_checked>>, ev.target)
         ELSE c1
    ELSE cx

----------------------------------------------------------------------------
(* Observers of core_barrier.rs.                                           *)

barrier_on_key_input(ev, cx) ==
    IF HasCoreBarrier(ev.target)
    THEN IF /\ ev.state = "Pressed"
            /\ ~ev.repeat
            /\ ev.key_code = "Escape"
         THEN IF callback[ev.target]
              THEN run_system(propagate_false(cx), ev.target, "Close", <<>>)
              ELSE cx
         ELSE cx
    ELSE cx


\* Variant: the press is ignored while InteractionDisabled is attached
barrier_on_pointer_down_DisabledGate(ev, cx) ==
    LET entity_id == ev.target IN
    IF HasCoreBarrier(entity_id) /\ ~disabled[entity_id]
    THEN LET c1 == propagate_false([cx EXCEPT !.focus = entity_id,
                                              !.focus_visible = FALSE]) IN
         IF callback[entity_id]
         THEN run_system(c1, entity_id, "Close", <<>>)
         ELSE c1
    ELSE cx

\* Variant: without on_close a close event is broadcast, as Button and
\* Checkbox do for their outcomes
barrier_on_pointer_down_BroadcastFallback(ev, cx) ==
    LET entity_id == ev.target IN
    IF HasCoreBarrier(entity_id)
    THEN LET c1 == propagate_false([cx EXCEPT !.focus = entity_id,
                                              !.focus_visible = FALSE]) IN
         IF callback[entity_id]
         THEN run_system(c1, entity_id, "Close", <<>>)
         ELSE trigger_targets(c1, "Close", <<>>, entity_id)
    ELSE cx

barrier_on_pointer_down(ev, cx) ==
    LET entity_id == ev.target IN
    IF HasCoreBarrier(entity_id)
    THEN LET c1 == propagate_false([cx EXCEPT !.focus = entity_id,
                                              !.focus_visible = FALSE]) IN
         IF callback[entity_id]
         THEN run_system(c1, entity_id, "Close", <<>>)
         ELSE c1
    ELSE cx

----------------------------------------------------------------------------
(* Dispatch of one event: the observers the three plugins add for its      *)
(* type run on the target, then the queued commands are applied.           *)

\* The application's consumer of a queued command (the on_change system, or
\* an observer of ValueChange): one that stores writes the value it is given
\* into CoreCheckbox.checked of the command's entity.
ApplyCommands(cx) ==
    LET cmds == cx.commands IN
    [e \in Entities |->
        IF stores[e] /\ \E i \in 1..Len(cmds) :
                            cmds[i].what = "ValueChange" /\ cmds[i].target = e
        THEN LET i == CHOOSE j \in 1..Len(cmds) :
                          /\ cmds[j].what = "ValueChange" /\ cmds[j].target = e
                          /\ \A k \in (j+1)..Len(cmds) :
                                ~(cmds[k].what = "ValueChange" /\ cmds[k].target = e)
             IN cmds[i].input[1]
        ELSE cx.checked[e]]

\* What is recorded of a dispatch: the event, the propagate flag and the
\* commands its observers left, ButtonPressed and CoreCheckbox.checked of the
\* target as the observers found them, and whether the event dispatched just
\* before was a pointer press-down on the same target.
Record(ev, cx) ==
    [type |-> ev.type, target |-> ev.target, key_code |-> ev.key_code,
     state |-> ev.state, repeat |-> ev.repeat,
     propagate |-> cx.propagate, commands |-> cx.commands,
     was_pressed |-> pressed[ev.target], was_checked |-> checked[ev.target],
     after_down |-> (last.type = "Pressed" /\ last.target = ev.target)]

\* The state a dispatch of ev leaves, cx being what its observers left
Handled(ev, cx) ==
    /\ pressed' = cx.pressed
    /\ focus' = cx.focus
    /\ focus_visible' = cx.focus_visible
    /\ checked' = ApplyCommands(cx)
    /\ last' = Record(ev, cx)
    /\ UNCHANGED <<kind, callback, stores, disabled>>

\* CoreButtonPlugin, CoreCheckboxPlugin, CoreBarrierPlugin: add_observer.
\* Each action is one event the input backend sends to entity e.
KeyInput(e, k, s, r) ==
    /\ e \in Entities
    /\ LET ev == KeyEvent(e, k, s, r) IN
       Handled(ev, barrier_on_key_input(ev,
                       checkbox_on_key_input(ev,
                           button_on_key_event(ev, Context))))

PointerClick(e) ==
    /\ e \in Entities
    /\ LET ev == PointerEvent("Click", e) IN
       Handled(ev, checkbox_on_pointer_click(ev, button_on_pointer_click(ev, Context)))

PointerPressed(e) ==
    /\ e \in Entities
    /\ LET ev == PointerEvent("Pressed", e) IN
       Handled(ev, barrier_on_pointer_down(ev, button_on_pointer_down(ev, Context)))

PointerReleased(e) ==
    /\ e \in Entities
    /\ LET ev == PointerEvent("Released", e) IN
       Handled(ev, button_on_pointer_up(ev, Context))

PointerDragEnd(e) ==
    /\ e \in Entities
    /\ LET ev == PointerEvent("DragEnd", e) IN
       Handled(ev, button_on_pointer_drag_end(ev, Context))

PointerCancel(e) ==
    /\ e \in Entities
    /\ LET ev == PointerEvent("Cancel", e) IN
       Handled(ev, button_on_pointer_cancel(ev, Context))

\* The application attaches InteractionDisabled to an entity or removes it
SetDisabled(e) ==
    /\ disabled' = [disabled EXCEPT ![e] = ~@]
    /\ last' = Record([type |-> "SetDisabled", target |-> e, key_code |-> "None",
                        state |-> "None", repeat |-> FALSE], Context)
    /\ UNCHANGED <<kind, callback, stores, checked, pressed, focus, focus_visible>>

----------------------------------------------------------------------------
(* Specification.                                                          *)

\* An entity carries one widget component or none; the fields a kind does
\* not have are held at FALSE.  ButtonPressed defaults to false, InputFocus
\* to None; InputFocusVisible is whatever focus navigation left it.
Init ==
    /\ kind \in [Entities -> Kinds]
    /\ callback \in [Entities -> BOOLEAN]
    /\ \A e \in Entities : callback[e] => kind[e] \in {"Button", "Checkbox", "Barrier"}
    /\ checked \in [Entities -> BOOLEAN]
    /\ \A e \in Entities : checked[e] => kind[e] = "Checkbox"
    /\ stores \in [Entities -> BOOLEAN]
    /\ \A e \in Entities : stores[e] => kind[e] = "Checkbox"
    /\ disabled \in [Entities -> BOOLEAN]
    /\ pressed = [e \in Entities |-> FALSE]
    /\ focus = NoEntity
    /\ focus_visible \in BOOLEAN
    /\ last = [type |-> "Init", target |-> NoEntity, key_code |-> "None",
               state |-> "None", repeat |-> FALSE,
               propagate |-> TRUE, commands |-> <<>>,
               was_pressed |-> FALSE, was_checked |-> FALSE, after_down |-> FALSE]

Next ==
    \E e \in Entities :
        \/ \E k \in KeyCodes, s \in ButtonStates, r \in BOOLEAN : KeyInput(e, k, s, r)
        \/ PointerClick(e)
        \/ PointerPressed(e)
        \/ PointerReleased(e)
        \/ PointerDragEnd(e)
        \/ PointerCancel(e)
        \/ SetDisabled(e)

Spec == Init /\ [][Next]_vars

----------------------------------------------------------------------------
(* Vocabulary of the properties.                                           *)

\* The event dispatched last was of type t and its target carries widget k
Dispatched(t, k) ==
    /\ last.type = t
    /\ last.target \in Entities
    /\ kind[last.target] = k

\* The step dispatches an event of type t to a target that carries widget k
Dispatches(t, k) ==
    /\ last'.type = t
    /\ last'.target \in Entities
    /\ kind[last'.target] = k

\* The one command that delivers outcome `what` of entity e through the
\* channel e's callback field selects
Delivery(e, what, input) ==
    [via |-> IF callback[e] THEN "callback" ELSE "broadcast",
     what |-> what, target |-> e, input |-> input]

\* A key-pressed transition, not an auto-repeat, of Enter or Space
ActivationKey(rec) ==
    /\ rec.state = "Pressed"
    /\ ~rec.repeat
    /\ rec.key_code \in {"Enter", "Space"}

----------------------------------------------------------------------------
(* C1 *)

\* C1: a PointerClick on a Button produces a Clicked outcome (callback or
\* broadcast) only if ButtonPressed was true when the click observer ran and
\* InteractionDisabled is not attached; a click on a Button that is not
\* pressed (no pointer-down before it) produces nothing.
C1_ClickNeedsPressedAndEnabled ==
    Dispatched("Click", "Button") =>
        /\ last.commands # <<>> => (last.was_pressed /\ ~disabled[last.target])
        /\ ~last.was_pressed => last.commands = <<>>

\* A click on a pressed, enabled Button has produced its outcome
C1_Witness ==
    /\ Dispatched("Click", "Button")
    /\ last.was_pressed
    /\ ~disabled[last.target]
    /\ last.commands # <<>>

----------------------------------------------------------------------------
(* C2 *)

\* C2 as claimed: on an enabled Button, pointer-down, pointer-up, PointerClick
\* on the same entity make ButtonPressed true after the down, false after the
\* up, and the click then produces exactly one Clicked outcome.
C2_DownUpClickClicksOnce ==
    [][/\ (Dispatches("Pressed", "Button") /\ ~disabled[last'.target])
            => pressed'[last'.target]
       /\ (/\ Dispatched("Pressed", "Button") /\ ~disabled[last.target]
           /\ Dispatches("Released", "Button") /\ last'.target = last.target)
            => ~pressed'[last'.target]
       /\ (/\ Dispatched("Released", "Button") /\ last.after_down
           /\ ~disabled[last.target]
           /\ Dispatches("Click", "Button") /\ last'.target = last.target)
            => Len(last'.commands) = 1
      ]_vars

\* C2 amended: on an enabled Button, pointer-down makes ButtonPressed true and
\* a pointer-up that follows makes it false; a PointerClick that follows the
\* up finds ButtonPressed false and produces no outcome, while a PointerClick
\* that follows the down directly (before the up) produces exactly one
\* Clicked outcome.
C2_ClickCountsOnlyBeforeUp ==
    [][/\ (Dispatches("Pressed", "Button") /\ ~disabled[last'.target])
            => pressed'[last'.target]
       /\ (/\ Dispatched("Pressed", "Button") /\ ~disabled[last.target]
           /\ Dispatches("Released", "Button") /\ last'.target = last.target)
            => ~pressed'[last'.target]
       /\ (/\ Dispatched("Released", "Button") /\ last.after_down
           /\ ~disabled[last.target]
           /\ Dispatches("Click", "Button") /\ last'.target = last.target)
            => last'.commands = <<>>
       /\ (/\ Dispatched("Pressed", "Button") /\ ~disabled[last.target]
           /\ Dispatches("Click", "Button") /\ last'.target = last.target)
            => last'.commands = <<Delivery(last'.target, "ButtonClicked", <<>>)>>
      ]_vars

\* An enabled Button has just handled pointer-down and then pointer-up
C2_Witness ==
    /\ Dispatched("Released", "Button")
    /\ last.after_down
    /\ last.was_pressed
    /\ ~disabled[last.target]
    /\ ~pressed[last.target]

----------------------------------------------------------------------------
(* C3 *)

\* C3: while InteractionDisabled is attached to a Button or a Checkbox, no
\* pointer or keyboard event that targets it changes ButtonPressed or
\* produces a Clicked or ValueChange outcome, by callback or by broadcast.
C3_DisabledIgnoresInput ==
    \A k \in {"Button", "Checkbox"} :
        \A t \in PointerTypes \cup {"Key"} :
            (Dispatched(t, k) /\ disabled[last.target]) =>
                /\ pressed[last.target] = last.was_pressed
                /\ last.commands = <<>>

\* A Button pressed while enabled and disabled since has handled pointer-up:
\* it is still pressed
C3_Witness ==
    /\ Dispatched("Released", "Button")
    /\ disabled[last.target]
    /\ last.was_pressed
    /\ pressed[last.target]

----------------------------------------------------------------------------
(* C4 *)

\* C4: on an enabled Button, pointer-down followed by drag-end on the same
\* entity leaves ButtonPressed false, and neither event produces a Clicked
\* outcome.
C4_DragEndCancelsPress ==
    /\ Dispatched("Pressed", "Button") => last.commands = <<>>
    /\ (Dispatched("DragEnd", "Button") /\ last.after_down /\ ~disabled[last.target])
        => (~pressed[last.target] /\ last.commands = <<>>)

\* An enabled Button that pointer-down had pressed has handled drag-end
C4_Witness ==
    /\ Dispatched("DragEnd", "Button")
    /\ last.after_down
    /\ last.was_pressed
    /\ ~disabled[last.target]

----------------------------------------------------------------------------
(* C5 *)

\* C5: on a Checkbox that is not disabled and stores checked = c, a keyboard
\* event that is a key-pressed transition, not an auto-repeat, of Enter or
\* Space dispatches ~c exactly once, to on_change if there is one and as
\* ValueChange(~c) addressed to the checkbox otherwise; an auto-repeat, a
\* key-released transition or another key dispatches nothing.
C5_CheckboxKeyDispatch ==
    (Dispatched("Key", "Checkbox") /\ ~disabled[last.target]) =>
        IF ActivationKey(last)
        THEN last.commands =
                <<Delivery(last.target, "ValueChange", <<~last.was_checked>>)>>
        ELSE last.commands = <<>>

\* An enabled, checked Checkbox has dispatched FALSE for a Space key press
C5_Witness ==
    /\ Dispatched("Key", "Checkbox")
    /\ ~disabled[last.target]
    /\ ActivationKey(last)
    /\ last.key_code = "Space"
    /\ last.was_checked
    /\ Len(last.commands) = 1
    /\ last.commands[1].input = <<FALSE>>

----------------------------------------------------------------------------
(* C6 *)

\* C6: a PointerClick on a Checkbox always sets InputFocus to the checkbox
\* and InputFocusVisible to false, disabled or not; it dispatches ~checked
\* if and only if InteractionDisabled is not attached.
C6_CheckboxClick ==
    Dispatched("Click", "Checkbox") =>
        /\ focus = last.target
        /\ ~focus_visible
        /\ IF disabled[last.target]
           THEN last.commands = <<>>
           ELSE last.commands =
                    <<Delivery(last.target, "ValueChange", <<~last.was_checked>>)>>

\* A disabled Checkbox has taken the focus on a click and dispatched nothing
C6_Witness ==
    /\ Dispatched("Click", "Checkbox")
    /\ disabled[last.target]
    /\ focus = last.target
    /\ ~focus_visible
    /\ last.commands = <<>>

----------------------------------------------------------------------------
(* C7 *)

\* C7: a key-pressed, non-repeat Escape that targets a Barrier halts
\* propagation whether or not on_close is registered: with on_close the
\* callback is run exactly once; without it propagation is halted all the
\* same and nothing else happens (no callback, no broadcast, no focus change).
C7_EscapeHaltsPropagation ==
    [][(/\ Dispatches("Key", "Barrier")
        /\ last'.state = "Pressed" /\ ~last'.repeat /\ last'.key_code = "Escape")
        => /\ ~last'.propagate
           /\ focus' = focus /\ focus_visible' = focus_visible
           /\ IF callback[last'.target]
              THEN last'.commands =
                      <<[via |-> "callback", what |-> "Close",
                         target |-> last'.target, input |-> <<>>]>>
              ELSE last'.commands = <<>>
      ]_vars

----------------------------------------------------------------------------
(* C8 *)

\* C8: every Clicked or ValueChange outcome of a Button or Checkbox goes
\* through exactly one channel: with a registered callback the callback is
\* run once (with the new value for a checkbox) and nothing is broadcast;
\* without one exactly one ButtonClicked / ValueChange(new value) is broadcast,
\* addressed to the event's target, and no callback is run.
C8_OneChannel ==
    \A t \in PointerTypes \cup {"Key"} :
        /\ (Dispatched(t, "Button") /\ last.commands # <<>>) =>
                last.commands = <<Delivery(last.target, "ButtonClicked", <<>>)>>
        /\ (Dispatched(t, "Checkbox") /\ last.commands # <<>>) =>
                last.commands =
                    <<Delivery(last.target, "ValueChange", <<~last.was_checked>>)>>

\* A Button without on_click has broadcast ButtonClicked for a key press
C8_Witness ==
    /\ Dispatched("Key", "Button")
    /\ ActivationKey(last)
    /\ ~callback[last.target]
    /\ last.commands = <<[via |-> "broadcast", what |-> "ButtonClicked",
                          target |-> last.target, input |-> <<>>]>>

----------------------------------------------------------------------------
(* C9 *)

\* C9: a keyboard event that targets a Button that is not disabled produces
\* a Clicked outcome if and only if it is a key-pressed transition, not an
\* auto-repeat, of Enter or Space; key-released transitions, auto-repeats and
\* other keys produce nothing.
C9_ButtonKeyClicksOnPressOnly ==
    (Dispatched("Key", "Button") /\ ~disabled[last.target]) =>
        (last.commands # <<>> <=> ActivationKey(last))

----------------------------------------------------------------------------
(* C10 *)

\* C10: PointerCancel dispatched to a Button whose ButtonPressed is already
\* false is a no-op, the first time and again the second: ButtonPressed stays
\* false, the focus state is unchanged and no Clicked outcome is produced;
\* and pointer-up, drag-end and cancel are idempotent on ButtonPressed (the
\* same event dispatched again to the same target changes no flag).
C10_CancelIdempotent ==
    [][/\ (Dispatches("Cancel", "Button") /\ ~pressed[last'.target])
            => /\ pressed' = pressed
               /\ focus' = focus /\ focus_visible' = focus_visible
               /\ last'.commands = <<>>
       /\ (/\ last.type \in {"Released", "DragEnd", "Cancel"}
           /\ last'.type = last.type /\ last'.target = last.target)
            => pressed' = pressed
      ]_vars

\* An enabled Button that was not pressed has handled PointerCancel
C10_Witness ==
    /\ Dispatched("Cancel", "Button")
    /\ ~disabled[last.target]
    /\ ~last.was_pressed
    /\ ~pressed[last.target]
    /\ last.commands = <<>>

----------------------------------------------------------------------------
(* C11 *)

\* The command that runs on_close of barrier e
RunClose(e) == [via |-> "callback", what |-> "Close", target |-> e, input |-> <<>>]

\* A key-pressed transition, not an auto-repeat, of Escape
EscapeKey(rec) ==
    /\ rec.state = "Pressed"
    /\ ~rec.repeat
    /\ rec.key_code = "Escape"

\* C11 as claimed: while InteractionDisabled is attached to a Barrier, no
\* pointer press-down and no Escape key event that targets it runs on_close
\* or moves the focus.
C11_DisabledBarrierInert ==
    [][(/\ disabled[last'.target]
        /\ \/ Dispatches("Pressed", "Barrier")
           \/ Dispatches("Key", "Barrier") /\ last'.key_code = "Escape")
        => /\ last'.commands = <<>>
           /\ focus' = focus
           /\ focus_visible' = focus_visible
      ]_vars

\* C11 amended: InteractionDisabled does not gate a Barrier.  With it
\* attached, a pointer press-down still moves the focus to the barrier, sets
\* InputFocusVisible to false and runs on_close if one is registered, and a
\* key-pressed, non-repeat Escape still runs on_close if one is registered;
\* the key event does not move the focus.
C11_DisabledBarrierStillCloses ==
    [][/\ (Dispatches("Pressed", "Barrier") /\ disabled[last'.target])
            => /\ focus' = last'.target
               /\ ~focus_visible'
               /\ last'.commands =
                    IF callback[last'.target] THEN <<RunClose(last'.target)>> ELSE <<>>
       /\ (Dispatches("Key", "Barrier") /\ disabled[last'.target])
            => /\ focus' = focus
               /\ focus_visible' = focus_visible
               /\ last'.commands =
                    IF EscapeKey(last') /\ callback[last'.target]
                    THEN <<RunClose(last'.target)>> ELSE <<>>
      ]_vars

\* A disabled Barrier with on_close has taken the focus on a press-down and
\* run the callback
C11_Witness ==
    /\ Dispatched("Pressed", "Barrier")
    /\ disabled[last.target]
    /\ callback[last.target]
    /\ focus = last.target
    /\ last.commands = <<RunClose(last.target)>>

----------------------------------------------------------------------------
(* C12 *)

\* C12: a pointer press-down on a Barrier sets InputFocus to the barrier and
\* InputFocusVisible to false, halts propagation, and runs on_close exactly
\* once if it is registered; without on_close nothing is produced (close has
\* no broadcast fallback).
C12_BarrierPressDown ==
    Dispatched("Pressed", "Barrier") =>
        /\ focus = last.target
        /\ ~focus_visible
        /\ ~last.propagate
        /\ last.commands = IF callback[last.target]
                           THEN <<RunClose(last.target)>> ELSE <<>>

\* A Barrier without on_close has taken the focus on a press-down, halted
\* propagation and produced nothing
C12_Witness ==
    /\ Dispatched("Pressed", "Barrier")
    /\ ~callback[last.target]
    /\ focus = last.target
    /\ ~last.propagate
    /\ last.commands = <<>>

----------------------------------------------------------------------------
(* C13 *)

\* C13: ButtonPressed is true only between a qualifying pointer-down and the
\* next pointer-up, drag-end, cancel or click on the same entity: once an
\* enabled Button has handled any of these four events ButtonPressed is
\* false, so that pointer-down followed by two PointerClick events produces
\* at most one Clicked outcome.
C13_PressedEndsAtUpDragEndCancelClick ==
    [][/\ \A t \in {"Released", "DragEnd", "Cancel", "Click"} :
            (Dispatches(t, "Button") /\ ~disabled[last'.target])
                => ~pressed'[last'.target]
       /\ (/\ Dispatched("Click", "Button") /\ last.after_down
           /\ Dispatches("Click", "Button") /\ last'.target = last.target)
            => Len(last.commands) + Len(last'.commands) <= 1
      ]_vars

----------------------------------------------------------------------------
(* C14 *)

\* C14: an event of the Button controller (focused key, pointer click,
\* press-down, release-up, drag-end, cancel) whose target has no CoreButton,
\* an entity that carries ButtonPressed alone included, is a no-op: the
\* propagate flag, ButtonPressed and the focus state are unchanged and no
\* outcome is produced.  (Targets that carry no CoreCheckbox or CoreBarrier
\* either, so that only the Button observers can have acted.)
C14_NoButtonNoEffect ==
    [][(/\ last'.type \in PointerTypes \cup {"Key"}
        /\ last'.target \in Entities
        /\ kind[last'.target] \in {"Pressed", "Bare"})
        => /\ last'.propagate
           /\ pressed' = pressed
           /\ focus' = focus
           /\ focus_visible' = focus_visible
           /\ last'.commands = <<>>
      ]_vars

----------------------------------------------------------------------------
(* C15 *)

\* C15: a keyboard event that produces a Clicked outcome on a Button has its
\* propagation halted, whether on_click is run or ButtonClicked is broadcast;
\* and every dispatch of any controller that produces an outcome leaves the
\* event with propagate = false.
C15_OutcomeHaltsPropagation ==
    /\ (Dispatched("Key", "Button") /\ last.commands # <<>>) => ~last.propagate
    /\ last.commands # <<>> => ~last.propagate

----------------------------------------------------------------------------
(* C16 *)

\* C16: a disabled Button claims pointer events and not keyboard events: a
\* press-down, release-up, drag-end, cancel or click that targets it halts
\* propagation, changes no state and produces no outcome, while a keyboard
\* event that targets a disabled Button or a disabled Checkbox is ignored and
\* its propagate flag is left as it was.
C16_DisabledClaimsPointerNotKey ==
    [][/\ \A t \in PointerTypes :
            (Dispatches(t, "Button") /\ disabled[last'.target])
                => /\ ~last'.propagate
                   /\ last'.commands = <<>>
                   /\ UNCHANGED <<pressed, checked, focus, focus_visible>>
       /\ \A k \in {"Button", "Checkbox"} :
            (Dispatches("Key", k) /\ disabled[last'.target])
                => /\ last'.propagate
                   /\ last'.commands = <<>>
                   /\ UNCHANGED <<pressed, checked, focus, focus_visible>>
      ]_vars

\* A disabled Button has handled a press-down: propagation is halted, the
\* button is not pressed and the focus is not on it
C16_Witness ==
    /\ Dispatched("Pressed", "Button")
    /\ disabled[last.target]
    /\ ~last.propagate
    /\ ~pressed[last.target]
    /\ focus # last.target

----------------------------------------------------------------------------
(* C17 *)

\* The step dispatches an event whose observers write the focus: press-down
\* on an enabled entity with ButtonPressed, click on a Checkbox, press-down
\* on a Barrier
TakesFocus ==
    /\ last'.target \in Entities
    /\ \/ /\ last'.type = "Pressed"
          /\ HasButtonPressed(last'.target)
          /\ ~disabled[last'.target]
       \/ last'.type = "Click" /\ HasCoreCheckbox(last'.target)
       \/ last'.type = "Pressed" /\ HasCoreBarrier(last'.target)

\* C17: every step that writes InputFocus (Button press-down when enabled,
\* Checkbox click, Barrier press-down) sets it to the event's target and sets
\* InputFocusVisible to false in the same step; no keyboard observer and no
\* release, drag-end, cancel or button-click observer changes either.
C17_FocusOnlyByPointerAcquisition ==
    [][/\ TakesFocus => (focus' = last'.target /\ ~focus_visible')
       /\ (focus' # focus \/ focus_visible' # focus_visible) => TakesFocus
       /\ (\/ last'.type \in {"Key", "Released", "DragEnd", "Cancel"}
           \/ Dispatches("Click", "Button"))
            => UNCHANGED <<focus, focus_visible>>
      ]_vars

\* An enabled Button has taken the focus on a press-down, InputFocusVisible
\* is false
C17_Witness ==
    /\ Dispatched("Pressed", "Button")
    /\ ~disabled[last.target]
    /\ focus = last.target
    /\ ~focus_visible

----------------------------------------------------------------------------
(* C18 *)

\* The value the dispatch recorded in rec handed to the consumer
Dispatched_value(rec) == rec.commands[1].input[1]

\* C18: no Checkbox observer writes CoreCheckbox.checked: checked changes
\* only through the consumer of a ValueChange outcome, to the value
\* dispatched; with a consumer that does nothing checked keeps its value and
\* consecutive qualifying clicks or key presses dispatch the same ~checked.
C18_ControllerNeverWritesChecked ==
    [][/\ \A e \in Entities :
            checked'[e] # checked[e]
                => /\ stores[e]
                   /\ last'.target = e
                   /\ last'.commands # <<>>
                   /\ last'.commands[1].what = "ValueChange"
                   /\ checked'[e] = Dispatched_value(last')
       /\ \A t1, t2 \in {"Click", "Key"} :
            (/\ Dispatched(t1, "Checkbox") /\ last.commands # <<>>
             /\ Dispatches(t2, "Checkbox") /\ last'.commands # <<>>
             /\ last'.target = last.target
             /\ ~stores[last.target])
                => /\ Dispatched_value(last) = ~checked[last.target]
                   /\ Dispatched_value(last') = ~checked[last.target]
                   /\ checked'[last.target] = checked[last.target]
      ]_vars

\* An enabled Checkbox whose consumer does nothing has dispatched ~checked
\* for a key press and still stores the old value
C18_Witness ==
    /\ Dispatched("Key", "Checkbox")
    /\ ~stores[last.target]
    /\ last.commands # <<>>
    /\ Dispatched_value(last) = ~last.was_checked
    /\ checked[last.target] = last.was_checked

----------------------------------------------------------------------------
(* C19 *)

----------------------------------------------------------------------------
(* C20 *)

\* C20: widget state is per entity.  An event that targets one entity
\* changes ButtonPressed of no other and addresses every outcome to its
\* target; a pointer-down on Button A followed by a PointerClick on another
\* Button B that is not pressed produces no Clicked outcome; and a click on B
\* clicks only if ButtonPressed of B is true, which only a pointer-down on B
\* handled while B was enabled makes it and every release-up, drag-end or
\* cancel on B handled while B is enabled undoes.
C20_PerEntityIsolation ==
    [][/\ \A e \in Entities : e # last'.target => pressed'[e] = pressed[e]
       /\ \A i \in 1..Len(last'.commands) : last'.commands[i].target = last'.target
       /\ (/\ Dispatched("Pressed", "Button")
           /\ Dispatches("Click", "Button")
           /\ last'.target # last.target
           /\ ~pressed[last'.target])
            => last'.commands = <<>>
       /\ (Dispatches("Click", "Button") /\ last'.commands # <<>>)
            => pressed[last'.target]
       /\ \A e \in Entities :
            (pressed'[e] /\ ~pressed[e])
                => (last'.type = "Pressed" /\ last'.target = e /\ ~disabled[e])
       /\ \A e \in Entities :
            (/\ last'.type \in {"Released", "DragEnd", "Cancel"}
             /\ last'.target = e /\ HasButtonPressed(e) /\ ~disabled[e])
                => ~pressed'[e]
      ]_vars

\* Button B, enabled and not pressed, has handled a click without an outcome
\* while another enabled Button is pressed
C20_Witness ==
    /\ Dispatched("Click", "Button")
    /\ ~disabled[last.target]
    /\ ~last.was_pressed
    /\ last.commands = <<>>
    /\ \E a \in Entities :
        /\ a # last.target
        /\ HasCoreButton(a)
        /\ ~disabled[a]
        /\ pressed[a]

====
